---------------------------- MODULE Spec2Model ----------------------------
(***************************************************************************)
(* Model of greenplum_parser.py: the scanner that finds elog/ereport calls *)
(* in raw source text, splits their arguments and classifies them.         *)
(*                                                                         *)
(* A text is a sequence of one-character strings.  Offsets are 0-based as  *)
(* in the Python source: At(s, i) is s[i], Slice(s, a, b) is s[a:b].       *)
(* Python's None is the value None below; an optional text is either None  *)
(* or Some(text).                                                          *)
(***************************************************************************)
EXTENDS Integers, Sequences, FiniteSets, TLC

VARIABLES op, input, pc, result

vars == <<op, input, pc, result>>

---------------------------------------------------------------------------
(* Characters and Python string primitives                                 *)

QUOTE == "\""
SQUOTE == "'"
BSLASH == "\\"
NL == "\n"
TAB == "\t"

\* str.strip() and the regex class \s
WS == {" ", NL, TAB}

Digits == {"0", "1", "2", "3", "4", "5", "6", "7", "8", "9"}

Letters ==
  {"a", "b", "c", "d", "e", "f", "g", "h", "i", "j", "k", "l", "m",
   "n", "o", "p", "q", "r", "s", "t", "u", "v", "w", "x", "y", "z",
   "A", "B", "C", "D", "E", "F", "G", "H", "I", "J", "K", "L", "M",
   "N", "O", "P", "Q", "R", "S", "T", "U", "V", "W", "X", "Y", "Z"}

\* the regex class \w
WordChars == Letters \cup Digits \cup {"_"}

Min(a, b) == IF a < b THEN a ELSE b
Max(a, b) == IF a > b THEN a ELSE b

None == <<>>
Some(v) == <<v>>

\* s[i], 0-based
At(s, i) == s[i + 1]

\* s[a:b] for 0 <= a, 0 <= b (Python clamps b to len(s))
Slice(s, a, b) == SubSeq(s, a + 1, Min(b, Len(s)))

\* s[a:]
From(s, a) == SubSeq(s, a + 1, Len(s))

\* the least element of the set of integers S, or default when S is empty
LeastOr(S, default) ==
  IF S = {} THEN default ELSE CHOOSE x \in S : \A y \in S : x <= y

\* the greatest element of the set of integers S, or default when S is empty
GreatestOr(S, default) ==
  IF S = {} THEN default ELSE CHOOSE x \in S : \A y \in S : x >= y

\* the first offset at or after p that holds no whitespace (regex \s*)
skip_ws(s, p) ==
  LeastOr({q \in p..(Len(s) - 1) : At(s, q) \notin WS}, Max(p, Len(s)))

\* str.strip()
strip(s) ==
  LET first == skip_ws(s, 0)
      last == GreatestOr({q \in 0..(Len(s) - 1) : At(s, q) \notin WS}, -1)
  IN  Slice(s, first, last + 1)

\* A loop over the offsets lo..hi-1 of text s in increasing order: Body is
\* applied to the loop state at each offset.  The range is halved so that
\* the evaluation nests only logarithmically deep; the test on the state of
\* the first half makes TLC evaluate that half before the second.
RECURSIVE Loop(_, _, _, _, _)
Loop(Body(_, _, _), s, lo, hi, st) ==
  IF hi <= lo THEN st
  ELSE IF hi = lo + 1 THEN Body(st, s, lo)
  ELSE LET mid == (lo + hi) \div 2
           first == Loop(Body, s, lo, mid, st)
       IN  IF DOMAIN first = DOMAIN st THEN Loop(Body, s, mid, hi, first) ELSE first

\* s.startswith(p) at offset i
startswith_at(s, p, i) ==
  /\ i + Len(p) <= Len(s)
  /\ \A k \in 1..Len(p) : s[i + k] = p[k]

startswith(s, p) == startswith_at(s, p, 0)

endswith(s, p) == Len(p) <= Len(s) /\ startswith_at(s, p, Len(s) - Len(p))

\* sep.join(parts)
RECURSIVE join(_, _)
join(sep, parts) ==
  IF parts = <<>> THEN <<>>
  ELSE IF Len(parts) = 1 THEN parts[1]
  ELSE parts[1] \o sep \o join(sep, Tail(parts))

RECURSIVE Concat(_)
Concat(parts) == IF parts = <<>> THEN <<>> ELSE Head(parts) \o Concat(Tail(parts))

---------------------------------------------------------------------------
(* split_arguments                                                         *)

\* the locals of split_arguments before its loop; cuts records the offsets
\* at which line 81 (args.append at a comma) ran
split_init ==
  [args |-> <<>>, current_arg |-> <<>>, depth |-> 0, ternary_depth |-> 0,
   in_string |-> FALSE, escape |-> FALSE, cuts |-> <<>>]

\* a plausible bug: the in_string branch is lost, so quotes protect nothing
split_step_noquote(st, c, i) ==
  IF st.escape
    THEN [st EXCEPT !.current_arg = Append(@, c), !.escape = FALSE]
  ELSE IF c = BSLASH
    THEN [st EXCEPT !.current_arg = Append(@, c), !.escape = TRUE]
  ELSE IF c = "("
    THEN [st EXCEPT !.current_arg = Append(@, c), !.depth = @ + 1]
  ELSE IF c = ")"
    THEN [st EXCEPT !.current_arg = Append(@, c),
                    !.depth = IF @ > 0 THEN @ - 1 ELSE @]
  ELSE IF c = "?"
    THEN [st EXCEPT !.current_arg = Append(@, c), !.ternary_depth = @ + 1]
  ELSE IF c = ":"
    THEN [st EXCEPT !.current_arg = Append(@, c),
                    !.ternary_depth = IF @ > 0 THEN @ - 1 ELSE @]
  ELSE IF c = "," /\ st.depth = 0 /\ st.ternary_depth = 0
    THEN [st EXCEPT !.args = Append(@, strip(st.current_arg)),
                    !.current_arg = <<>>,
                    !.cuts = Append(@, i)]
  ELSE [st EXCEPT !.current_arg = Append(@, c)]

\* a plausible bug: the ternary counter no longer gates the comma
split_step_noternary(st, c, i) ==
  IF st.escape
    THEN [st EXCEPT !.current_arg = Append(@, c), !.escape = FALSE]
  ELSE IF c = BSLASH
    THEN [st EXCEPT !.current_arg = Append(@, c), !.escape = TRUE]
  ELSE IF st.in_string
    THEN [st EXCEPT !.current_arg = Append(@, c), !.in_string = (c # QUOTE)]
  ELSE IF c = QUOTE
    THEN [st EXCEPT !.current_arg = Append(@, c), !.in_string = TRUE]
  ELSE IF c = "("
    THEN [st EXCEPT !.current_arg = Append(@, c), !.depth = @ + 1]
  ELSE IF c = ")"
    THEN [st EXCEPT !.current_arg = Append(@, c),
                    !.depth = IF @ > 0 THEN @ - 1 ELSE @]
  ELSE IF c = "," /\ st.depth = 0
    THEN [st EXCEPT !.args = Append(@, strip(st.current_arg)),
                    !.current_arg = <<>>,
                    !.cuts = Append(@, i)]
  ELSE [st EXCEPT !.current_arg = Append(@, c)]

\* one iteration of the while loop (lines 51-85) on character c at offset i
split_step(st, c, i) ==
  IF st.escape
    THEN [st EXCEPT !.current_arg = Append(@, c), !.escape = FALSE]
  ELSE IF c = BSLASH
    THEN [st EXCEPT !.current_arg = Append(@, c), !.escape = TRUE]
  ELSE IF st.in_string
    THEN [st EXCEPT !.current_arg = Append(@, c), !.in_string = (c # QUOTE)]
  ELSE IF c = QUOTE
    THEN [st EXCEPT !.current_arg = Append(@, c), !.in_string = TRUE]
  ELSE IF c = "("
    THEN [st EXCEPT !.current_arg = Append(@, c), !.depth = @ + 1]
  ELSE IF c = ")"
    THEN [st EXCEPT !.current_arg = Append(@, c),
                    !.depth = IF @ > 0 THEN @ - 1 ELSE @]
  ELSE IF c = "?"
    THEN [st EXCEPT !.current_arg = Append(@, c), !.ternary_depth = @ + 1]
  ELSE IF c = ":"
    THEN [st EXCEPT !.current_arg = Append(@, c),
                    !.ternary_depth = IF @ > 0 THEN @ - 1 ELSE @]
  ELSE IF c = "," /\ st.depth = 0 /\ st.ternary_depth = 0
    THEN [st EXCEPT !.args = Append(@, strip(st.current_arg)),
                    !.current_arg = <<>>,
                    !.cuts = Append(@, i)]
  ELSE [st EXCEPT !.current_arg = Append(@, c)]

\* the loop body at offset i
split_body(st, s, i) == split_step(st, At(s, i), i)

\* the state of split_arguments when its loop ends
split_scan(s) == Loop(split_body, s, 0, Len(s), split_init)

split_arguments(s) ==
  LET st == split_scan(s)
  IN  IF strip(st.current_arg) # <<>>
        THEN Append(st.args, strip(st.current_arg))
        ELSE st.args

---------------------------------------------------------------------------
(* Inputs                                                                  *)

\* all texts over alphabet A of length at most n
RECURSIVE TextsUpTo(_, _)
TextsUpTo(A, n) ==
  IF n = 0 THEN {<<>>}
  ELSE LET shorter == TextsUpTo(A, n - 1)
       IN  shorter \cup {Append(t, c) : t \in shorter, c \in A}

\* longest argument string enumerated exhaustively for split_arguments
MaxSplitLen == 4

SplitAlphabet == {"a", ",", "(", ")", QUOTE, BSLASH, " ", "?", ":"}

\* longest token of the A,B,C inputs
MaxTokLen == 1

TokAlphabet == {"a", "b", "?", ":", " "}

Tokens == TextsUpTo(TokAlphabet, MaxTokLen) \ {<<>>}

ABCInputs == {a \o <<",">> \o b \o <<",">> \o c : a \in Tokens, b \in Tokens, c \in Tokens}

SplitInputs == TextsUpTo(SplitAlphabet, MaxSplitLen) \cup ABCInputs

---------------------------------------------------------------------------
(* Specification of split_arguments applied to an argument string          *)

InitSplit ==
  /\ op = "split_arguments"
  /\ input \in SplitInputs
  /\ pc = "call"
  /\ result = None

CallSplit ==
  /\ op = "split_arguments"
  /\ pc = "call"
  /\ result' = [args |-> split_arguments(input), cuts |-> split_scan(input).cuts]
  /\ pc' = "done"
  /\ UNCHANGED <<op, input>>

NextSplit == CallSplit

SpecSplit == InitSplit /\ [][NextSplit]_vars

SplitDone == op = "split_arguments" /\ pc = "done"

---------------------------------------------------------------------------
(* What the claims about split_arguments mean, stated on the input text     *)
(* alone (no scan state): positions are classified by counting.            *)

\* the number of consecutive backslashes that end right before offset i
BackslashRun(s, i) ==
  CHOOSE k \in 0..i :
    /\ \A j \in (i - k)..(i - 1) : At(s, j) = BSLASH
    /\ (k = i \/ At(s, i - k - 1) # BSLASH)

\* the character at offset i follows a backslash that is not itself escaped
Escaped(s, i) == BackslashRun(s, i) % 2 = 1

\* offset i lies after an odd number of unescaped double quotes
InQuoted(s, i) ==
  Cardinality({j \in 0..(i - 1) : At(s, j) = QUOTE /\ ~Escaped(s, j)}) % 2 = 1

\* the character at offset i is neither escaped nor inside a quoted region
Structural(s, i) == ~Escaped(s, i) /\ ~InQuoted(s, i)

Marks(s, c, a, b) == {j \in a..b : At(s, j) = c /\ Structural(s, j)}

\* some structural opener before offset i is still unmatched at i
Unmatched(s, i, opener, closer) ==
  \E j \in Marks(s, opener, 0, i - 1) :
    \A k \in (j + 1)..(i - 1) :
      Cardinality(Marks(s, closer, j + 1, k)) <= Cardinality(Marks(s, opener, j + 1, k))

InParens(s, i) == Unmatched(s, i, "(", ")")

InTernary(s, i) == Unmatched(s, i, "?", ":")

Commas(s) == {i \in 0..(Len(s) - 1) : At(s, i) = ","}

RECURSIVE CountCommas(_)
CountCommas(parts) ==
  IF parts = <<>> THEN 0
  ELSE Cardinality(Commas(Head(parts))) + CountCommas(Tail(parts))

Range(f) == {f[k] : k \in DOMAIN f}

Trimmed(t) == t = <<>> \/ (t[1] \notin WS /\ t[Len(t)] \notin WS)

\* C3: split_arguments never cuts at a comma inside a double-quoted region
\* or inside a parenthesised group; those commas all stay inside the
\* returned elements, and every returned element is whitespace-trimmed.
C3_NoSplitInsideQuotesOrParens ==
  SplitDone =>
    /\ \A i \in Range(result.cuts) :
         At(input, i) = "," /\ ~InQuoted(input, i) /\ ~InParens(input, i)
    /\ CountCommas(result.args) = Cardinality(Commas(input)) - Len(result.cuts)
    /\ \A k \in DOMAIN result.args : Trimmed(result.args[k])

\* C3 witness: an input with a comma inside quotes or parentheses that is
\* kept, next to a comma that does start a new argument.
C3_Witness ==
  /\ SplitDone
  /\ \E i \in Commas(input) : InQuoted(input, i) \/ InParens(input, i)
  /\ Len(result.cuts) >= 1

TopLevelCommas(s) ==
  {i \in Commas(s) : Structural(s, i) /\ ~InParens(s, i)}

NoneOf(t, chars) == \A k \in DOMAIN t : t[k] \notin chars

\* the three pieces of a text that holds exactly two commas
Pieces(s) ==
  LET c1 == LeastOr(Commas(s), 0)
      c2 == GreatestOr(Commas(s), 0)
  IN  <<Slice(s, 0, c1), Slice(s, c1 + 1, c2), From(s, c2 + 1)>>

\* the text is A,B,C for three non-empty trimmed tokens that hold no
\* parenthesis, no quote, no comma and none of the excluded characters
IsABC(s, excluded) ==
  /\ Cardinality(Commas(s)) = 2
  /\ \A k \in 1..3 :
       /\ Pieces(s)[k] = strip(Pieces(s)[k])
       /\ Pieces(s)[k] # <<>>
       /\ NoneOf(Pieces(s)[k], {"(", ")", QUOTE} \cup excluded)

\* C10 as stated: every comma outside double quotes and at paren depth 0
\* starts a new argument whatever ? or : precede it, and A,B,C yields
\* [A,B,C] for tokens without parentheses, quotes or commas.
C10_Original_TernaryDoesNotGate ==
  SplitDone =>
    /\ TopLevelCommas(input) \subseteq Range(result.cuts)
    /\ IsABC(input, {BSLASH}) => result.args = Pieces(input)

\* C10 amended: a new argument starts at exactly the commas that are outside
\* double quotes, not backslash-escaped, at paren depth 0 and at ternary
\* depth 0 (no ? still waiting for its :); A,B,C yields [A,B,C] for trimmed
\* non-empty tokens without parentheses, quotes, commas, backslashes or ?.
C10_TernaryGatesSplit ==
  SplitDone =>
    /\ Range(result.cuts) = {i \in TopLevelCommas(input) : ~InTernary(input, i)}
    /\ IsABC(input, {BSLASH, "?"}) => result.args = Pieces(input)

\* C10 witness: a top-level comma after an open ? is kept while another
\* comma of the same text starts a new argument.
C10_Witness ==
  /\ SplitDone
  /\ \E i \in TopLevelCommas(input) : InTernary(input, i) /\ i \notin Range(result.cuts)
  /\ Len(result.cuts) >= 1

---------------------------------------------------------------------------
(* clean_errmsg_template                                                   *)

NoMatch == -1

\* the first candidate end offset that is a match, in the regex engine's order
RECURSIVE FirstMatch(_)
FirstMatch(cands) ==
  IF cands = <<>> THEN NoMatch
  ELSE IF Head(cands) # NoMatch THEN Head(cands)
  ELSE FirstMatch(Tail(cands))

\* the length of the run of digits that starts at offset p
DigitRun(s, p) ==
  CHOOSE k \in 0..Max(0, Len(s) - p) :
    /\ \A j \in p..(p + k - 1) : At(s, j) \in Digits
    /\ (p + k >= Len(s) \/ At(s, p + k) \notin Digits)

IsAt(s, p, c) == p < Len(s) /\ At(s, p) = c

\* [diuoxXfFeEgGaAcCsSpn%]
ConversionChars ==
  {"d", "i", "u", "o", "x", "X", "f", "F", "e", "E", "g", "G", "a", "A",
   "c", "C", "s", "S", "p", "n", "%"}

match_conversion(s, p) ==
  IF p < Len(s) /\ At(s, p) \in ConversionChars THEN p + 1 ELSE NoMatch

\* (?:hh|h|ll|l|j|z|t|L)? then the conversion character
LengthModifiers ==
  << <<"h", "h">>, <<"h">>, <<"l", "l">>, <<"l">>, <<"j">>, <<"z">>, <<"t">>, <<"L">> >>

match_length(s, p) ==
  FirstMatch([k \in 1..(Len(LengthModifiers) + 1) |->
    IF k > Len(LengthModifiers) THEN match_conversion(s, p)
    ELSE IF startswith_at(s, LengthModifiers[k], p)
      THEN match_conversion(s, p + Len(LengthModifiers[k]))
    ELSE NoMatch])

\* (?:\.(?:\d+|\*))? then the rest; \d+ is greedy and gives digits back
match_precision(s, p) ==
  LET n == DigitRun(s, p + 1)
  IN  FirstMatch(
        (IF IsAt(s, p, ".")
           THEN [k \in 1..n |-> match_length(s, p + 1 + (n + 1 - k))]
                \o <<IF IsAt(s, p + 1, "*") THEN match_length(s, p + 2) ELSE NoMatch>>
           ELSE <<>>)
        \o <<match_length(s, p)>>)

\* (?:\d+|\*)? then the rest
match_width(s, p) ==
  LET n == DigitRun(s, p)
  IN  FirstMatch(
        [k \in 1..n |-> match_precision(s, p + (n + 1 - k))]
        \o <<IF IsAt(s, p, "*") THEN match_precision(s, p + 1) ELSE NoMatch>>
        \o <<match_precision(s, p)>>)

\* (?:0| )? then the rest
match_pad(s, p) ==
  FirstMatch(<<IF IsAt(s, p, "0") \/ IsAt(s, p, " ")
                 THEN match_width(s, p + 1) ELSE NoMatch,
               match_width(s, p)>>)

\* [+-]? then the rest
match_sign(s, p) ==
  FirstMatch(<<IF IsAt(s, p, "+") \/ IsAt(s, p, "-")
                 THEN match_pad(s, p + 1) ELSE NoMatch,
               match_pad(s, p)>>)

\* (?:\d+\$)? then the rest
match_argnum(s, p) ==
  LET n == DigitRun(s, p)
  IN  FirstMatch(<<IF n >= 1 /\ IsAt(s, p + n, "$")
                     THEN match_sign(s, p + n + 1) ELSE NoMatch,
                   match_sign(s, p)>>)

\* the end offset of a match of the specifier pattern (line 343) that
\* starts at offset p, or NoMatch
specifier_end(s, p) ==
  IF IsAt(s, p, "%") THEN match_argnum(s, p + 1) ELSE NoMatch

\* re.sub scans left to right: the state is the output so far and the
\* offset pos where the scan stands; offsets inside a match are passed over
sub_init == [out |-> <<>>, pos |-> 0]

sub_specifiers_body(st, s, i) ==
  IF st.pos # i THEN st
  ELSE IF specifier_end(s, i) # NoMatch THEN [st EXCEPT !.pos = specifier_end(s, i)]
  ELSE [out |-> Append(st.out, At(s, i)), pos |-> i + 1]

\* re.sub(pattern, '', s) (line 344)
sub_specifiers(s) == Loop(sub_specifiers_body, s, 0, Len(s), sub_init).out

\* a match of \\[nrt] at offset i
escape_at(s, i) == IsAt(s, i, BSLASH) /\ i + 1 < Len(s) /\ At(s, i + 1) \in {"n", "r", "t"}

sub_escapes_body(st, s, i) ==
  IF st.pos # i THEN st
  ELSE IF escape_at(s, i) THEN [st EXCEPT !.pos = i + 2]
  ELSE [out |-> Append(st.out, At(s, i)), pos |-> i + 1]

\* re.sub(r'\\[nrt]', '', s) (line 346)
sub_escapes(s) == Loop(sub_escapes_body, s, 0, Len(s), sub_init).out

IsNotQuoteChar(c) == c \notin {QUOTE, SQUOTE}

\* a plausible bug: only double quotes are removed
remove_quotes_double_only(s) == SelectSeq(s, LAMBDA c : c # QUOTE)

\* .replace('"', '').replace("'", '') (line 347)
remove_quotes(s) == SelectSeq(s, IsNotQuoteChar)

collapse_body(st, s, i) ==
  IF At(s, i) \notin WS THEN [st EXCEPT !.out = Append(@, At(s, i))]
  ELSE IF i > 0 /\ At(s, i - 1) \in WS THEN st
  ELSE [st EXCEPT !.out = Append(@, " ")]

\* re.sub(r'\s+', ' ', s) (line 348): each whitespace run becomes one space
collapse_whitespace(s) == Loop(collapse_body, s, 0, Len(s), sub_init).out

\* clean_errmsg_template of an optional text
clean_errmsg_template(errmsg_template) ==
  IF errmsg_template = None THEN None
  ELSE LET cleaned1 == sub_specifiers(errmsg_template[1])
           cleaned2 == sub_escapes(cleaned1)
           cleaned3 == remove_quotes(cleaned2)
       IN  Some(strip(collapse_whitespace(cleaned3)))

\* longest template enumerated exhaustively for clean_errmsg_template
MaxCleanLen == 4

CleanAlphabet == {"%", "s", BSLASH, "n", QUOTE, SQUOTE, " ", "a"}

\* the template of test_clean_errmsg_template and its expected result
TestTemplate == <<"F", "i", "l", "e", " ", "n", "o", "t", " ", "f", "o", "u", "n", "d", ":", " ", "%", "s", BSLASH, "n", "P", "l", "e", "a", "s", "e", " ", "c", "h", "e", "c", "k", " ", "t", "h", "e", " ", "p", "a", "t", "h", ".">>

TestTemplateCleaned == <<"F", "i", "l", "e", " ", "n", "o", "t", " ", "f", "o", "u", "n", "d", ":", " ", "P", "l", "e", "a", "s", "e", " ", "c", "h", "e", "c", "k", " ", "t", "h", "e", " ", "p", "a", "t", "h", ".">>

CleanInputs ==
  {None, Some(TestTemplate)} \cup {Some(t) : t \in TextsUpTo(CleanAlphabet, MaxCleanLen)}

InitClean ==
  /\ op = "clean_errmsg_template"
  /\ input \in CleanInputs
  /\ pc = "call"
  /\ result = None

CallClean ==
  /\ op = "clean_errmsg_template"
  /\ pc = "call"
  /\ result' = clean_errmsg_template(input)
  /\ pc' = "done"
  /\ UNCHANGED <<op, input>>

NextClean == CallClean

SpecClean == InitClean /\ [][NextClean]_vars

CleanDone == op = "clean_errmsg_template" /\ pc = "done"

HasSpecifier(t) == \E i \in 0..(Len(t) - 1) : specifier_end(t, i) # NoMatch

HasEscape(t) == \E i \in 0..(Len(t) - 1) : escape_at(t, i)

HasQuoteChar(t) == \E k \in DOMAIN t : t[k] \in {QUOTE, SQUOTE}

HasWhitespaceRun(t) == \E k \in 1..(Len(t) - 1) : t[k] \in WS /\ t[k + 1] \in WS

\* C9 as stated: the result holds no conversion specifier, no backslash+n/r/t,
\* no quote character, no whitespace run, no leading or trailing whitespace
\* (so cleaning it again changes nothing); a null input returns null.
C9_Original_ResultInNormalForm ==
  CleanDone =>
    IF input = None THEN result = None
    ELSE /\ result # None
         /\ ~HasSpecifier(result[1])
         /\ ~HasEscape(result[1])
         /\ ~HasQuoteChar(result[1])
         /\ ~HasWhitespaceRun(result[1])
         /\ Trimmed(result[1])
         /\ clean_errmsg_template(result) = result

\* C9 amended: the result never holds a quote character, a whitespace run,
\* a newline or tab, or leading/trailing whitespace, and a null input returns
\* null; conversion specifiers and backslash+n/r/t are each removed in one
\* pass over the text, so the result can still hold one that a removal
\* joined (%\ns gives %s) and cleaning it again can change it.  The template
\* of test_clean_errmsg_template cleans to the expected text.
C9_QuotesAndWhitespaceNormalised ==
  CleanDone =>
    IF input = None THEN result = None
    ELSE /\ result # None
         /\ ~HasQuoteChar(result[1])
         /\ ~HasWhitespaceRun(result[1])
         /\ NoneOf(result[1], {NL, TAB})
         /\ Trimmed(result[1])
         /\ (input[1] = TestTemplate => result[1] = TestTemplateCleaned)

\* C9 witness: a template that holds a quote character and a whitespace
\* run has been cleaned to something non-empty.
C9_Witness ==
  /\ CleanDone
  /\ input # None
  /\ HasQuoteChar(input[1]) /\ HasWhitespaceRun(input[1])
  /\ result # None /\ result[1] # <<>>

---------------------------------------------------------------------------
(* find_function_calls                                                     *)

\* name\s*\( matched at offset p: the offset after the "(", or NoMatch
call_head_end(s, p, name) ==
  IF startswith_at(s, name, p) /\ IsAt(s, skip_ws(s, p + Len(name)), "(")
    THEN skip_ws(s, p + Len(name)) + 1
    ELSE NoMatch

\* a regex search that found nothing (Python's None match object)
NoMatchObject == [found |-> FALSE]

\* the alternation (n1|n2|...)\s*\( tried at offset p, alternatives from k on
RECURSIVE names_match_at(_, _, _, _)
names_match_at(s, p, func_names, k) ==
  IF k > Len(func_names) THEN NoMatchObject
  ELSE IF call_head_end(s, p, func_names[k]) # NoMatch
    THEN [found |-> TRUE, start |-> p,
          end |-> call_head_end(s, p, func_names[k]), group1 |-> func_names[k]]
  ELSE names_match_at(s, p, func_names, k + 1)

\* pattern.search(s, i) of line 215: the leftmost match at or after i
names_search(s, i, func_names) ==
  LET starts == {p \in i..(Len(s) - 1) : names_match_at(s, p, func_names, 1).found}
  IN  IF starts = {} THEN NoMatchObject
      ELSE names_match_at(s, LeastOr(starts, 0), func_names, 1)

\* the inner while loop that skips a string literal (lines 229-230, 188-189,
\* 112-115): the first offset at or after pos that holds a quote whose
\* previous character is not a backslash, or len(s)
skip_string(s, pos) ==
  LeastOr({q \in pos..(Len(s) - 1) : ~(At(s, q) # QUOTE \/ At(s, q - 1) = BSLASH)},
          Max(pos, Len(s)))

\* one iteration of the balancing loop of find_function_calls (lines
\* 222-231); the loop state is pos and paren_count, and offsets that pos
\* has jumped over, or that come after the loop ended, are passed over
balance_calls_body(st, s, i) ==
  IF ~(st.pos = i /\ st.paren_count > 0) THEN st
  ELSE IF At(s, i) = "(" THEN [pos |-> i + 1, paren_count |-> st.paren_count + 1]
  ELSE IF At(s, i) = ")" THEN [pos |-> i + 1, paren_count |-> st.paren_count - 1]
  ELSE IF At(s, i) = QUOTE /\ (i = 0 \/ At(s, i - 1) # BSLASH)
    THEN [st EXCEPT !.pos = skip_string(s, i + 1) + 1]
  ELSE [st EXCEPT !.pos = i + 1]

\* the balancing loop of find_function_calls: the value of pos when it ends
balance_calls(s, pos, paren_count) ==
  Loop(balance_calls_body, s, pos, Len(s), [pos |-> pos, paren_count |-> paren_count]).pos

\* the outer loop of find_function_calls from search offset i; each entry
\* also keeps the locals name_start (match.start()), start and pos
RECURSIVE find_calls_from(_, _, _)
find_calls_from(s, i, func_names) ==
  IF i >= Len(s) THEN <<>>
  ELSE LET match == names_search(s, i, func_names)
       IN  IF ~match.found THEN <<>>
           ELSE LET start == match.end
                    pos == balance_calls(s, start, 1)
                IN  <<[func_name |-> match.group1,
                       args_str |-> Slice(s, start, pos - 1),
                       name_start |-> match.start,
                       start |-> start,
                       pos |-> pos]>>
                    \o find_calls_from(s, pos, func_names)

find_function_calls(s, func_names) == find_calls_from(s, 0, func_names)

\* function names as texts
errmsg == <<"e", "r", "r", "m", "s", "g">>
errmsg_internal == errmsg \o <<"_", "i", "n", "t", "e", "r", "n", "a", "l">>
errmsg_plural == errmsg \o <<"_", "p", "l", "u", "r", "a", "l">>
errcode == <<"e", "r", "r", "c", "o", "d", "e">>
errcode_for_file_access ==
  errcode \o <<"_", "f", "o", "r", "_", "f", "i", "l", "e", "_", "a", "c", "c", "e", "s", "s">>
errdetail == <<"e", "r", "r", "d", "e", "t", "a", "i", "l">>
errhint == <<"e", "r", "r", "h", "i", "n", "t">>
errcontext == <<"e", "r", "r", "c", "o", "n", "t", "e", "x", "t">>

\* name(args)
Call(name, args) == name \o <<"(">> \o args \o <<")">>

\* a string literal with the given body
Lit(body) == <<QUOTE>> \o body \o <<QUOTE>>

\* the sub-call texts the inputs of find_function_calls are built from:
\* plain calls, a comma and a parenthesis inside a literal, escaped quotes,
\* a literal ending in an escaped backslash, a nested call, a name outside
\* the searched set, a call that is never closed
CallPieces ==
  { Call(errmsg, Lit(<<"x">>)),
    Call(errmsg, Lit(<<"a", ",", "b">>) \o <<",", " ", "v">>),
    Call(errmsg, Lit(<<"(">>)),
    Call(errmsg, Lit(<<BSLASH, QUOTE, "q", BSLASH, QUOTE>>)),
    Call(errmsg, Lit(<<"a", BSLASH, BSLASH>>)),
    Call(errmsg, Call(<<"f">>, Call(errcode, <<"Z">>))),
    Call(errcode, <<"Y">>),
    Call(errdetail, Lit(<<"d">>)),
    errcode \o <<" ", "(", "Y">> }

\* the input of test_find_function_calls
TestCallsInput ==
  Call(errmsg, Lit(<<"A", "n", " ", "e", "r", "r", "o", "r", " ", "o", "c", "c", "u", "r", "r", "e", "d", ":", " ", "%", "s">>) \o <<",", " ">> \o <<"e", "r", "r", "o", "r", "M", "s", "g">>)
  \o <<",", " ">> \o Call(errcode, <<"E", "R", "R", "C", "O", "D", "E", "_", "I", "N", "T", "E", "R", "N", "A", "L", "_", "E", "R", "R", "O", "R">>)

\* most sub-calls in one input of find_function_calls
MaxCalls == 2

RECURSIVE SeqsUpTo(_, _)
SeqsUpTo(S, n) ==
  IF n = 0 THEN {<<>>}
  ELSE LET shorter == SeqsUpTo(S, n - 1)
       IN  shorter \cup {Append(q, x) : q \in shorter, x \in S}

CallsInputs ==
  {join(<<",", " ">>, q) : q \in SeqsUpTo(CallPieces, MaxCalls)} \cup {TestCallsInput}

\* func_names of test_find_function_calls
TestFuncNames == <<errmsg, errcode>>

InitCalls ==
  /\ op = "find_function_calls"
  /\ input \in CallsInputs
  /\ pc = "call"
  /\ result = None

CallFindCalls ==
  /\ op = "find_function_calls"
  /\ pc = "call"
  /\ result' = find_function_calls(input, TestFuncNames)
  /\ pc' = "done"
  /\ UNCHANGED <<op, input>>

NextCalls == CallFindCalls

SpecCalls == InitCalls /\ [][NextCalls]_vars

CallsDone == op = "find_function_calls" /\ pc = "done"

\* offset i lies inside a string literal that opened at or after offset a:
\* an odd number of unescaped double quotes lies in a..i-1
QuotedFrom(s, a, i) ==
  Cardinality({j \in a..(i - 1) : At(s, j) = QUOTE /\ ~Escaped(s, j)}) % 2 = 1

\* the parentheses c outside string literals at offsets a..b, literals
\* counted from offset o
ParensIn(s, o, c, a, b) == {j \in a..b : At(s, j) = c /\ ~QuotedFrom(s, o, j)}

\* the closing parentheses that balance the "(" right before offset o
ClosersOf(s, o) ==
  {k \in o..(Len(s) - 1) :
     /\ At(s, k) = ")" /\ ~QuotedFrom(s, o, k)
     /\ Cardinality(ParensIn(s, o, "(", o, k - 1))
          = Cardinality(ParensIn(s, o, ")", o, k - 1))}

HasClose(s, o) == ClosersOf(s, o) # {}

\* the matching closing parenthesis of the "(" right before offset o
MatchingClose(s, o) == CHOOSE k \in ClosersOf(s, o) : \A m \in ClosersOf(s, o) : k <= m

\* C4: find_function_calls reports calls to the given names in left-to-right
\* order; when the call's closing parenthesis is present, args_str is the
\* text strictly between the opening parenthesis and its matching closing
\* parenthesis; the next reported call starts after that closing
\* parenthesis, and the first call to a given name after it is reported.
C4_CallsInOrderWithExactArguments ==
  CallsDone =>
    \A k \in DOMAIN result :
      LET r == result[k]
      IN  /\ call_head_end(input, r.name_start, r.func_name) = r.start
          /\ k > 1 => result[k - 1].name_start < r.name_start
          /\ HasClose(input, r.start) =>
               /\ r.args_str = Slice(input, r.start, MatchingClose(input, r.start))
               /\ k < Len(result) =>
                    /\ result[k + 1].name_start > MatchingClose(input, r.start)
                    /\ \A p \in (MatchingClose(input, r.start) + 1)..(result[k + 1].name_start - 1) :
                         ~names_match_at(input, p, TestFuncNames, 1).found
               /\ k = Len(result) =>
                    \A p \in (MatchingClose(input, r.start) + 1)..(Len(input) - 1) :
                      ~names_match_at(input, p, TestFuncNames, 1).found

---------------------------------------------------------------------------
(* ast.literal_eval('"' + raw + '"') as extract_ereport and extract_elog   *)
(* use it: Python's reading of one or more adjacent string literals.       *)
(* Modelled: double-quoted and triple-double-quoted parts, juxtaposed      *)
(* parts separated by spaces or tabs, and the escapes below.  Not          *)
(* modelled (no input holds them): \x, \N, \u, \U and octal escapes,       *)
(* single-quoted or prefixed parts, and # comments after a part.           *)

\* characters that Python's \a \b \f \v \r stand for
BEL == "BEL"
BS == "BS"
FF == "FF"
VT == "VT"
CR == "CR"

\* the text a backslash followed by c stands for inside a literal
unescape(c) ==
  CASE c = "n" -> <<NL>>
    [] c = "t" -> <<TAB>>
    [] c = "r" -> <<CR>>
    [] c = "a" -> <<BEL>>
    [] c = "b" -> <<BS>>
    [] c = "f" -> <<FF>>
    [] c = "v" -> <<VT>>
    [] c \in {BSLASH, QUOTE, SQUOTE} -> <<c>>
    [] c = NL -> <<>>
    [] OTHER -> <<BSLASH, c>>

Raised == [ok |-> FALSE, value |-> <<>>]

\* the tokenizer state: pos is the offset it stands at, mode is "out"
\* (between parts), "one" (inside "...") or "three" (inside """..."""),
\* ok turns FALSE when the text is no string literal
literal_init == [pos |-> 0, mode |-> "out", out |-> <<>>, ok |-> TRUE]

literal_body(st, t, i) ==
  IF ~(st.pos = i /\ st.ok) THEN st
  ELSE IF st.mode = "out" THEN
    IF At(t, i) \in {" ", TAB} THEN [st EXCEPT !.pos = i + 1]
    ELSE IF At(t, i) = BSLASH /\ IsAt(t, i + 1, NL) THEN [st EXCEPT !.pos = i + 2]
    ELSE IF At(t, i) = QUOTE
      THEN IF IsAt(t, i + 1, QUOTE) /\ IsAt(t, i + 2, QUOTE)
             THEN [st EXCEPT !.pos = i + 3, !.mode = "three"]
             ELSE [st EXCEPT !.pos = i + 1, !.mode = "one"]
    ELSE [st EXCEPT !.ok = FALSE]
  ELSE
    IF At(t, i) = BSLASH
      THEN IF i + 1 >= Len(t) THEN [st EXCEPT !.ok = FALSE]
           ELSE [st EXCEPT !.pos = i + 2, !.out = @ \o unescape(At(t, i + 1))]
    ELSE IF st.mode = "one" /\ At(t, i) = NL THEN [st EXCEPT !.ok = FALSE]
    ELSE IF st.mode = "one" /\ At(t, i) = QUOTE
      THEN [st EXCEPT !.pos = i + 1, !.mode = "out"]
    ELSE IF st.mode = "three" /\ At(t, i) = QUOTE
              /\ IsAt(t, i + 1, QUOTE) /\ IsAt(t, i + 2, QUOTE)
      THEN [st EXCEPT !.pos = i + 3, !.mode = "out"]
    ELSE [st EXCEPT !.pos = i + 1, !.out = Append(@, At(t, i))]

\* ast.literal_eval(t): [ok |-> FALSE] stands for a raised exception
literal_eval(t) ==
  LET st == Loop(literal_body, t, 0, Len(t), literal_init)
  IN  IF st.ok /\ st.mode = "out" THEN [ok |-> TRUE, value |-> st.out] ELSE Raised

\* lines 275-282 and 313-320: the template taken from the first argument
template_of(errmsg_template_raw) ==
  IF startswith(errmsg_template_raw, <<QUOTE>>) /\ endswith(errmsg_template_raw, <<QUOTE>>)
    THEN LET inner == Slice(errmsg_template_raw, 1, Len(errmsg_template_raw) - 1)
             evaluated == literal_eval(<<QUOTE>> \o inner \o <<QUOTE>>)
         IN  IF evaluated.ok THEN evaluated.value ELSE inner
    ELSE errmsg_template_raw

---------------------------------------------------------------------------
(* extract_ereport                                                         *)

ereport == <<"e", "r", "e", "p", "o", "r", "t">>
elog == <<"e", "l", "o", "g">>

ERRCODE_ == <<"E", "R", "R", "C", "O", "D", "E", "_">>
ERRCODE_FILE_NOT_FOUND == ERRCODE_ \o <<"F", "I", "L", "E", "_", "N", "O", "T", "_", "F", "O", "U", "N", "D">>
ERRCODE_INTERNAL_ERROR == ERRCODE_ \o <<"I", "N", "T", "E", "R", "N", "A", "L", "_", "E", "R", "R", "O", "R">>
\* a symbol the table does not hold
ERRCODE_UNLISTED == ERRCODE_ \o <<"U">>

\* errcode_mapping: the table loaded once from data/errcode_mapping.json;
\* the file is not part of the sources, so two entries stand for it
errcode_mapping ==
  (ERRCODE_FILE_NOT_FOUND :> <<"5", "8", "P", "0", "1">>)
  @@ (ERRCODE_INTERNAL_ERROR :> <<"X", "X", "0", "0", "0">>)

\* errcode_mapping.get(key, None)
mapping_get(key) ==
  IF key \in DOMAIN errcode_mapping THEN Some(errcode_mapping[key]) ELSE None

errmsg_functions == <<errmsg, errmsg_internal, errmsg_plural>>
errcode_functions == <<errcode, errcode_for_file_access>>
all_functions ==
  errmsg_functions \o errcode_functions \o <<errdetail, errhint, errcontext>>

\* the locals of extract_ereport before its for loop (lines 264-267)
ereport_init ==
  [errmsg_template |-> None, errmsg_variables |-> <<>>,
   errcode |-> None, errcode_numeric |-> None]

\* one iteration of the for loop over the found sub-calls (lines 269-290)
ereport_step(acc, func) ==
  IF func.func_name \in Range(errmsg_functions)
    THEN LET sub_args == split_arguments(func.args_str)
         IN  IF sub_args # <<>>
               THEN [acc EXCEPT
                       !.errmsg_template = Some(template_of(strip(sub_args[1]))),
                       !.errmsg_variables =
                          IF Len(sub_args) > 1 THEN Tail(sub_args) ELSE @]
               ELSE acc
  ELSE IF func.func_name \in Range(errcode_functions)
    THEN LET errcode_arg == strip(func.args_str)
         IN  [acc EXCEPT
                !.errcode = Some(errcode_arg),
                !.errcode_numeric =
                   IF startswith(errcode_arg, ERRCODE_) THEN mapping_get(errcode_arg) ELSE @]
  ELSE acc

RECURSIVE ereport_loop(_, _)
ereport_loop(acc, functions) ==
  IF functions = <<>> THEN acc
  ELSE ereport_loop(ereport_step(acc, Head(functions)), Tail(functions))

\* extract_ereport(log): None, or Some(record)
extract_ereport(log0) ==
  LET log == strip(log0)
  IN  IF ~startswith(log, ereport) THEN None
      ELSE LET content0 == strip(From(log, Len(ereport)))
           IN  IF ~(startswith(content0, <<"(">>) /\ endswith(content0, <<")">>))
                 THEN None
               ELSE LET content == Slice(content0, 1, Len(content0) - 1)
                        args == split_arguments(content)
                    IN  IF Len(args) < 2 THEN None
                        ELSE LET severity_level == strip(args[1])
                                 error_spec == join(<<",">>, Tail(args))
                                 functions == find_function_calls(error_spec, all_functions)
                                 acc == ereport_loop(ereport_init, functions)
                             IN  Some([severity_level |-> severity_level,
                                       errmsg_template |-> acc.errmsg_template,
                                       errmsg_variables |-> acc.errmsg_variables,
                                       errcode |-> acc.errcode,
                                       errcode_numeric |-> acc.errcode_numeric])

---------------------------------------------------------------------------
(* extract_elog                                                            *)

\* the first offset at or after p that holds a comma, or len(s)
find_comma(s, p) ==
  LeastOr({q \in p..(Len(s) - 1) : At(s, q) = ","}, Max(p, Len(s)))

\* the offset where the whitespace run that ends right before offset e
\* begins, not going below offset lo
ws_run_start(s, e, lo) ==
  GreatestOr({q \in lo..(e - 1) : At(s, q) \notin WS}, lo - 1) + 1

\* the offset of the ")" that \)$ matches: the last character, or the one
\* before a final newline; NoMatch when neither is a ")"
final_paren(s) ==
  IF Len(s) >= 1 /\ At(s, Len(s) - 1) = ")" THEN Len(s) - 1
  ELSE IF Len(s) >= 2 /\ At(s, Len(s) - 1) = NL /\ At(s, Len(s) - 2) = ")" THEN Len(s) - 2
  ELSE NoMatch

\* the pattern elog\s*\(\s*(.*?)\s*,\s*(.*)\s*\)$ (DOTALL) tried at offset p
elog_match_at(log, p) ==
  LET head_end == call_head_end(log, p, elog)
      group1_start == skip_ws(log, head_end)
      comma == find_comma(log, group1_start)
      group2_start == skip_ws(log, comma + 1)
      close == final_paren(log)
  IN  IF head_end # NoMatch /\ comma < Len(log) /\ close # NoMatch /\ comma < close
        THEN [found |-> TRUE,
              group1 |-> Slice(log, group1_start, ws_run_start(log, comma, group1_start)),
              group2 |-> Slice(log, Min(group2_start, close), close)]
        ELSE NoMatchObject

\* pattern.search(log) of line 305: the leftmost match
elog_search(log, p) ==
  LET starts == {q \in p..(Len(log) - 1) : elog_match_at(log, q).found}
  IN  IF starts = {} THEN NoMatchObject ELSE elog_match_at(log, LeastOr(starts, 0))

\* extract_elog(log): None, or Some(record)
extract_elog(log) ==
  LET match == elog_search(log, 0)
  IN  IF ~match.found THEN None
      ELSE LET severity_level == strip(match.group1)
               args_content == strip(match.group2)
               args == split_arguments(args_content)
           IN  Some([severity_level |-> severity_level,
                     errmsg_template |->
                        IF args # <<>> THEN Some(template_of(strip(args[1]))) ELSE None,
                     errmsg_variables |->
                        IF Len(args) > 1 THEN Tail(args) ELSE <<>>,
                     errcode |-> None,
                     errcode_numeric |-> None])

---------------------------------------------------------------------------
(* Statement texts handed to extract_ereport and extract_elog              *)

CommaSpace == <<",", " ">>

\* name("template", v1, ..., vn)
MsgCall(name, template, variables) ==
  Call(name, join(CommaSpace, <<Lit(template)>> \o variables))

\* ereport(SEV, sub-call, ..., sub-call) followed by tail
EreportStmt(sev, subcalls, tail) ==
  Call(ereport, join(CommaSpace, <<sev>> \o subcalls)) \o tail

\* elog(SEV, "template", v1, ..., vn) followed by tail
ElogStmt(sev, template, variables, tail) ==
  Call(elog, join(CommaSpace, <<sev, Lit(template)>> \o variables)) \o tail

ERROR == <<"E", "R", "R", "O", "R">>
INFO == <<"I", "N", "F", "O">>

Severities == {ERROR, INFO}

\* statement terminators: none (as extract_logging_statements captures a
\* statement) and the semicolon of the tests
Tails == {<<>>, <<";">>}

\* message templates: the two of the tests and one without a specifier
TemplateFile == <<"F", "i", "l", "e", " ", "n", "o", "t", " ", "f", "o", "u", "n", "d", ":", " ", "%", "s">>
TemplateProcess == <<"S", "t", "a", "r", "t", "i", "n", "g", " ", "p", "r", "o", "c", "e", "s", "s", " ", "w", "i", "t", "h", " ", "I", "D", ":", " ", "%", "d">>
TemplatePlain == <<"m">>

Templates == {TemplateFile, TemplateProcess, TemplatePlain}

filePath == <<"f", "i", "l", "e", "P", "a", "t", "h">>
processId == <<"p", "r", "o", "c", "e", "s", "s", "I", "d">>

\* variable lists of a message
VariableLists == {<<>>, <<filePath>>, <<processId, Call(<<"f">>, <<"a", ",", " ", "b">>)>>}

\* the shapes of message-producing sub-calls: name, template, variables
MsgShapes ==
  {[name |-> errmsg, template |-> t, variables |-> v] : t \in Templates, v \in VariableLists}
  \cup {[name |-> errmsg_internal, template |-> TemplatePlain, variables |-> <<processId>>]}

MsgText(m) == MsgCall(m.name, m.template, m.variables)

\* symbols passed to errcode
Symbols == {ERRCODE_FILE_NOT_FOUND, ERRCODE_UNLISTED}

\* the sub-calls an ereport statement is built from
EreportPieces ==
  {MsgText(m) : m \in MsgShapes}
  \cup {Call(errcode, sym) : sym \in Symbols}
  \cup {Call(errcode_for_file_access, <<>>), MsgCall(errdetail, <<"d">>, <<>>)}

\* most sub-calls in one ereport statement
MaxSubCalls == 2

EreportInputs ==
  {EreportStmt(sev, q, tail) :
     sev \in Severities, q \in SeqsUpTo(EreportPieces, MaxSubCalls), tail \in Tails}

InitEreport ==
  /\ op = "extract_ereport"
  /\ input \in EreportInputs
  /\ pc = "call"
  /\ result = None

CallEreport ==
  /\ op = "extract_ereport"
  /\ pc = "call"
  /\ result' = extract_ereport(input)
  /\ pc' = "done"
  /\ UNCHANGED <<op, input>>

NextEreport == CallEreport

SpecEreport == InitEreport /\ [][NextEreport]_vars

EreportDone == op = "extract_ereport" /\ pc = "done"

\* the record the structured form is documented to produce for
\* ereport(sev, errmsg("T", v1, ..., vn), errcode(sym))
ExpectedEreport(sev, m, sym) ==
  Some([severity_level |-> sev,
        errmsg_template |-> Some(m.template),
        errmsg_variables |-> m.variables,
        errcode |-> Some(sym),
        errcode_numeric |-> mapping_get(sym)])

\* C1: extract_ereport applied to `ereport(SEV, errmsg("T", v1, ..., vn),
\* errcode(SYM));`, semicolon included, returns the record with severity SEV,
\* template T, variables v1..vn in order, errcode SYM and errcode_numeric the
\* table entry of SYM (null when the table has none).
C1_EreportStatementWithSemicolon ==
  EreportDone =>
    \A sev \in Severities, m \in MsgShapes, sym \in Symbols :
      (m.name = errmsg
         /\ input = EreportStmt(sev, <<MsgText(m), Call(errcode, sym)>>, <<";">>))
        => result = ExpectedEreport(sev, m, sym)

\* C5: in every record extract_ereport returns, errcode_numeric is non-null
\* only if errcode is non-null, is a key of the error-code table, and
\* errcode_numeric is the table value of that same symbol.
C5_NumericBelongsToSymbol ==
  (EreportDone /\ result # None) =>
    LET record == result[1]
    IN  record.errcode_numeric # None =>
          /\ record.errcode # None
          /\ record.errcode[1] \in DOMAIN errcode_mapping
          /\ record.errcode_numeric[1] = errcode_mapping[record.errcode[1]]

\* most variables after the template of an elog statement
MaxElogVars == 2

ElogVariables == {filePath, processId, Call(<<"f">>, <<"a", ",", " ", "b">>)}

ElogInputs ==
  {ElogStmt(sev, t, v, tail) :
     sev \in Severities, t \in Templates, v \in SeqsUpTo(ElogVariables, MaxElogVars),
     tail \in Tails}

InitElog ==
  /\ op = "extract_elog"
  /\ input \in ElogInputs
  /\ pc = "call"
  /\ result = None

CallElog ==
  /\ op = "extract_elog"
  /\ pc = "call"
  /\ result' = extract_elog(input)
  /\ pc' = "done"
  /\ UNCHANGED <<op, input>>

NextElog == CallElog

SpecElog == InitElog /\ [][NextElog]_vars

ElogDone == op = "extract_elog" /\ pc = "done"

\* C2: extract_elog applied to `elog(SEV, "T", v1, ..., vn);`, semicolon
\* included, returns the record with severity SEV, template T, variables
\* v1..vn in order, and null errcode and errcode_numeric.
C2_ElogStatementWithSemicolon ==
  ElogDone =>
    \A sev \in Severities, t \in Templates, v \in SeqsUpTo(ElogVariables, MaxElogVars) :
      input = ElogStmt(sev, t, v, <<";">>)
        => result = Some([severity_level |-> sev,
                          errmsg_template |-> Some(t),
                          errmsg_variables |-> v,
                          errcode |-> None,
                          errcode_numeric |-> None])

---------------------------------------------------------------------------
(* preprocess_log and extract_info_from_log                                *)

\* one step of str.replace(old, new) at offset i: occurrences are taken
\* left to right and do not overlap
replace_body(old, new, st, s, i) ==
  IF st.pos # i THEN st
  ELSE IF startswith_at(s, old, i) THEN [out |-> st.out \o new, pos |-> i + Len(old)]
  ELSE [out |-> Append(st.out, At(s, i)), pos |-> i + 1]

\* s.replace(old, new) for a non-empty old
replace(s, old, new) ==
  LET body(st, t, i) == replace_body(old, new, st, t, i)
  IN  Loop(body, s, 0, Len(s), sub_init).out

\* preprocess_log(log): the two-character escapes \n and \r\n are dropped
\* and a doubled backslash becomes one
preprocess_log(log) ==
  LET log1 == replace(log, <<BSLASH, "n">>, <<>>)
      log2 == replace(log1, <<BSLASH, "r", BSLASH, "n">>, <<>>)
  IN  replace(log2, <<BSLASH, BSLASH>>, <<BSLASH>>)

\* the record returned when classification fails (lines 375-385, 403-423)
failed_info(log, script_parse_error) ==
  [log |-> log, severity_level |-> None, errmsg_template |-> None,
   errmsg_variables |-> None, errcode |-> None, errcode_numeric |-> None,
   errmsg_clean |-> None, script_parse_error |-> Some(script_parse_error)]

\* the record returned when extract_ereport or extract_elog gave info; a
\* template that is None or empty is not cleaned (lines 361-373, 389-401)
parsed_info(log, info) ==
  [log |-> log,
   severity_level |-> Some(info.severity_level),
   errmsg_template |-> info.errmsg_template,
   errmsg_variables |-> Some(info.errmsg_variables),
   errcode |-> info.errcode,
   errcode_numeric |-> info.errcode_numeric,
   errmsg_clean |->
      IF info.errmsg_template # None /\ info.errmsg_template[1] # <<>>
        THEN clean_errmsg_template(info.errmsg_template)
        ELSE None,
   script_parse_error |-> None]

\* extract_info_from_log(log)
extract_info_from_log(log0) ==
  LET log == preprocess_log(log0)
  IN  IF startswith(strip(log), ereport)
        THEN IF extract_ereport(log) # None
               THEN parsed_info(log, extract_ereport(log)[1])
               ELSE failed_info(log, "Failed to parse ereport log")
      ELSE IF startswith(strip(log), elog)
        THEN IF extract_elog(log) # None
               THEN parsed_info(log, [extract_elog(log)[1] EXCEPT !.errcode = None,
                                                           !.errcode_numeric = None])
               ELSE failed_info(log, "Failed to parse elog log")
      ELSE failed_info(log, "Unknown log type")

---------------------------------------------------------------------------
(* extract_logging_statements and the line attribution                     *)

\* one iteration of the while loop of find_function_call_end_offset (lines
\* 103-116): every double quote opens a string literal here
end_offset_body(st, s, i) ==
  IF ~(st.pos = i /\ st.paren_count > 0) THEN st
  ELSE IF At(s, i) = "(" THEN [pos |-> i + 1, paren_count |-> st.paren_count + 1]
  ELSE IF At(s, i) = ")" THEN [pos |-> i + 1, paren_count |-> st.paren_count - 1]
  ELSE IF At(s, i) = QUOTE THEN [st EXCEPT !.pos = skip_string(s, i + 1) + 1]
  ELSE [st EXCEPT !.pos = i + 1]

\* find_function_call_end_offset(s, start_pos)
find_function_call_end_offset(s, start_pos) ==
  LET paren_open == LeastOr({q \in start_pos..(Len(s) - 1) : At(s, q) = "("}, NoMatch)
  IN  IF paren_open = NoMatch THEN start_pos
      ELSE Loop(end_offset_body, s, paren_open + 1, Len(s),
                [pos |-> paren_open + 1, paren_count |-> 1]).pos - 1

\* offset p is where a word begins (regex \b before a word character)
word_start(s, p) ==
  At(s, p) \in WordChars /\ (p = 0 \/ At(s, p - 1) \notin WordChars)

\* the pattern \b[A-Za-z_]\w*\s*\( tried at offset p
identifier_match_at(s, p) ==
  IF p < Len(s) /\ word_start(s, p) /\ At(s, p) \in Letters \cup {"_"}
    THEN LET name_end == LeastOr({q \in p..(Len(s) - 1) : At(s, q) \notin WordChars}, Len(s))
         IN  IF IsAt(s, skip_ws(s, name_end), "(")
               THEN [found |-> TRUE, start |-> p, end |-> skip_ws(s, name_end) + 1]
               ELSE NoMatchObject
    ELSE NoMatchObject

\* pattern.search(statement, i) of line 131
identifier_search(s, i) ==
  LET starts == {p \in i..(Len(s) - 1) : identifier_match_at(s, p).found}
  IN  IF starts = {} THEN NoMatchObject ELSE identifier_match_at(s, LeastOr(starts, 0))

\* the while loop of get_last_function_call_offset (lines 130-138)
RECURSIVE last_offset_loop(_, _, _)
last_offset_loop(statement, i, last_offset) ==
  LET match == identifier_search(statement, i)
  IN  IF ~match.found THEN last_offset
      ELSE LET call_end == find_function_call_end_offset(statement, match.start)
           IN  last_offset_loop(statement, match.end,
                                IF call_end > last_offset THEN call_end ELSE last_offset)

\* get_last_function_call_offset(statement)
get_last_function_call_offset(statement) ==
  LET last_offset == last_offset_loop(statement, 0, 0)
  IN  IF last_offset = 0 THEN Len(statement) - 1 ELSE last_offset

line_starts_body(st, code, i) ==
  IF At(code, i) = NL THEN [st EXCEPT !.out = Append(@, i + 1)] ELSE st

\* line_starts (lines 155-158): offset 0 and the offset after each newline
line_starts(code) == <<0>> \o Loop(line_starts_body, code, 0, Len(code), sub_init).out

\* the binary search of get_line_number (lines 160-168)
RECURSIVE line_search(_, _, _, _)
line_search(starts, pos, left, right) ==
  IF left > right THEN right + 1
  ELSE LET mid == (left + right) \div 2
       IN  IF At(starts, mid) <= pos
             THEN line_search(starts, pos, mid + 1, right)
             ELSE line_search(starts, pos, left, mid - 1)

get_line_number(code, pos) ==
  line_search(line_starts(code), pos, 0, Len(line_starts(code)) - 1)

\* the pattern \b(elog|ereport)\b\s*\( tried at offset p
log_match_at(code, p) ==
  IF p < Len(code) /\ word_start(code, p)
    THEN names_match_at(code, p, <<elog, ereport>>, 1)
    ELSE NoMatchObject

\* pattern.search(code, index) of line 171
log_search(code, index) ==
  LET starts == {p \in index..(Len(code) - 1) : log_match_at(code, p).found}
  IN  IF starts = {} THEN NoMatchObject ELSE log_match_at(code, LeastOr(starts, 0))

\* the while loop of extract_logging_statements from offset index (lines
\* 170-201); the inner loop that balances the parentheses (lines 178-190)
\* is the one of find_function_calls.  Each entry also keeps the locals
\* start_index, end_index and global_offset.
RECURSIVE statements_from(_, _)
statements_from(code, index) ==
  IF index >= Len(code) THEN <<>>
  ELSE LET match == log_search(code, index)
       IN  IF ~match.found THEN <<>>
           ELSE LET start_index == match.start
                    end_index == balance_calls(code, match.end, 1)
                    statement == Slice(code, start_index, end_index)
                    global_offset == start_index + get_last_function_call_offset(statement)
                IN  <<[statement |-> statement,
                       line_number |-> get_line_number(code, global_offset),
                       start_index |-> start_index,
                       end_index |-> end_index,
                       global_offset |-> global_offset]>>
                    \o statements_from(code, end_index)

extract_logging_statements(code) == statements_from(code, 0)

---------------------------------------------------------------------------
(* The run of main over one source text: extract_logging_statements, then  *)
(* extract_info_from_log for each captured statement in order              *)

LOG == <<"L", "O", "G">>
Semicolon == <<";", NL>>

\* the lines a source text is built from
PlainElog == Call(elog, join(CommaSpace, <<LOG, Lit(<<"a">>)>>)) \o Semicolon
\* an ereport over three lines whose closing parenthesis has a line to itself
MultiLineEreport ==
  Call(ereport, ERROR \o <<",", NL>> \o MsgCall(errmsg, <<"b">>, <<>>) \o <<NL>>) \o Semicolon
\* the closing parenthesis of the call is missing
UnbalancedElog == elog \o <<"(">> \o join(CommaSpace, <<LOG, Lit(<<"c">>)>>) \o Semicolon
\* the string literal is not terminated
UnterminatedElog == elog \o <<"(", QUOTE, "d", NL>>
\* the first argument holds a comma inside parentheses
NestedSeverityElog ==
  Call(elog, join(CommaSpace, <<Call(<<"f">>, <<"a", ",", "b">>), Lit(<<"x">>)>>)) \o Semicolon
\* the first argument is empty
EmptySeverityEreport == Call(ereport, join(CommaSpace, <<<<>>, MsgCall(errmsg, <<"x">>, <<>>)>>)) \o Semicolon
\* one argument only
ShortEreport == Call(ereport, ERROR) \o Semicolon
\* a line without a logging call
OtherLine == <<"x", " ", "=", " ">> \o Call(<<"g">>, <<"1">>) \o Semicolon

CodeLines ==
  {PlainElog, MultiLineEreport, UnbalancedElog, UnterminatedElog,
   NestedSeverityElog, EmptySeverityEreport, ShortEreport, OtherLine}

\* most pieces in one source text
MaxCodeLines == 2

CodeInputs == {Concat(q) : q \in SeqsUpTo(CodeLines, MaxCodeLines)}

Init ==
  /\ op = "main"
  /\ input \in CodeInputs
  /\ pc = "scan"
  /\ result = [statements |-> <<>>, parsed_logs |-> <<>>]

\* lines 447-451: the statements of the text with their line numbers
Scan ==
  /\ op = "main"
  /\ pc = "scan"
  /\ result' = [result EXCEPT !.statements = extract_logging_statements(input)]
  /\ pc' = "classify"
  /\ UNCHANGED <<op, input>>

\* one iteration of the loop of lines 458-463
Classify ==
  /\ op = "main"
  /\ pc = "classify"
  /\ Len(result.parsed_logs) < Len(result.statements)
  /\ LET stmt == result.statements[Len(result.parsed_logs) + 1].statement
     IN  result' = [result EXCEPT !.parsed_logs = Append(@, extract_info_from_log(stmt))]
  /\ UNCHANGED <<op, input, pc>>

\* the loop of lines 458-463 has gone through every statement
Finish ==
  /\ op = "main"
  /\ pc = "classify"
  /\ Len(result.parsed_logs) = Len(result.statements)
  /\ pc' = "done"
  /\ UNCHANGED <<op, input, result>>

Next == Scan \/ Classify \/ Finish

Spec == Init /\ [][Next]_vars

MainDone == op = "main" /\ pc = "done"

\* the text between the first "(" of a call text and its last ")"
CallContent(log) ==
  Slice(log,
        LeastOr({q \in 0..(Len(log) - 1) : At(log, q) = "("}, Len(log)) + 1,
        GreatestOr({q \in 0..(Len(log) - 1) : At(log, q) = ")"}, Len(log)))

\* C6: every statement that extract_info_from_log classifies successfully
\* (script_parse_error is None), ereport or elog, has as severity_level the
\* trimmed first top-level argument of the call, as split_arguments splits
\* the call's arguments, and that severity is a non-empty text.
C6_SeverityIsFirstArgument ==
  op = "main" =>
    \A k \in DOMAIN result.parsed_logs :
      LET info == result.parsed_logs[k]
          args == split_arguments(CallContent(info.log))
      IN  info.script_parse_error = None =>
            /\ info.severity_level # None
            /\ info.severity_level[1] # <<>>
            /\ args # <<>>
            /\ info.severity_level[1] = strip(args[1])

\* the offsets of a source text at which an elog or ereport call begins
LogOffsets(code) == {p \in 0..(Len(code) - 1) : log_match_at(code, p).found}

\* C7: a malformed elog/ereport call does not stop the processing of the
\* rest of the text: every elog/ereport call of the text is captured as a
\* statement that starts at that call, and each captured statement is
\* classified on its own by extract_info_from_log.
C7_EveryCallCapturedOnItsOwn ==
  MainDone =>
    /\ Len(result.parsed_logs) = Len(result.statements)
    /\ \A p \in LogOffsets(input) :
         \E k \in DOMAIN result.statements :
           /\ result.statements[k].start_index = p
           /\ result.parsed_logs[k].log = preprocess_log(result.statements[k].statement)

\* the 1-based line of a source text that holds offset pos
LineOf(code, pos) == 1 + Cardinality({q \in 0..(pos - 1) : q < Len(code) /\ At(code, q) = NL})

\* the offsets at which an identifier(...) call inside statement closes
CallCloses(statement) ==
  {MatchingClose(statement, identifier_match_at(statement, p).end) :
     p \in {q \in 0..(Len(statement) - 1) :
              /\ identifier_match_at(statement, q).found
              /\ HasClose(statement, identifier_match_at(statement, q).end)}}

\* C8: the line attributed to a captured statement is the 1-based line that
\* holds the greatest closing-parenthesis offset over the identifier(...)
\* calls inside the span (the logging call itself counted among them), and
\* the line of the span's last character when no call closes inside it.
C8_LineOfLastClosingParen ==
  (op = "main" /\ pc # "scan") =>
    \A k \in DOMAIN result.statements :
      LET st == result.statements[k]
          closes == CallCloses(st.statement)
      IN  st.line_number =
            LineOf(input, st.start_index
                            + (IF closes # {} THEN GreatestOr(closes, 0)
                                              ELSE Len(st.statement) - 1))

---------------------------------------------------------------------------
(* The three scanners that balance parentheses, applied to one call text:  *)
(* the statement scan of extract_logging_statements, find_function_calls   *)
(* and find_function_call_end_offset                                       *)

\* longest argument text enumerated after the opening parenthesis
MaxScanLen == 5

ScanAlphabet == {"a", "(", ")", QUOTE, BSLASH}

\* elog( followed by every text over the alphabet up to the length bound
ScanInputs == {elog \o <<"(">> \o t : t \in TextsUpTo(ScanAlphabet, MaxScanLen)}

InitScanners ==
  /\ op = "scanners"
  /\ input \in ScanInputs
  /\ pc = "call"
  /\ result = None

CallScanners ==
  /\ op = "scanners"
  /\ pc = "call"
  /\ result' = [statements |-> extract_logging_statements(input),
                calls |-> find_function_calls(input, <<elog>>),
                end_offset |-> find_function_call_end_offset(input, 0)]
  /\ pc' = "done"
  /\ UNCHANGED <<op, input>>

NextScanners == CallScanners

SpecScanners == InitScanners /\ [][NextScanners]_vars

ScannersDone == op = "scanners" /\ pc = "done"

\* every backslash of s at or after offset o lies inside a string literal
BackslashesQuoted(s, o) ==
  \A j \in o..(Len(s) - 1) : At(s, j) = BSLASH => QuotedFrom(s, o, j)

\* C11: in the three balanced scanners a double-quoted region ends at the
\* first quote that is not escaped by an un-escaped backslash, and
\* parentheses inside such a region do not count; so for a call whose
\* matching closing parenthesis is present (backslashes only inside string
\* literals), the statement span, the reported call and the reported
\* closing-paren offset all end at that parenthesis, also when a literal
\* ends in backslash, backslash, quote.
C11_ScannersEndAtMatchingParen ==
  (ScannersDone /\ BackslashesQuoted(input, Len(elog) + 1)
                /\ HasClose(input, Len(elog) + 1)) =>
    LET close == MatchingClose(input, Len(elog) + 1)
    IN  /\ Len(result.statements) >= 1
        /\ result.statements[1].end_index = close + 1
        /\ Len(result.calls) >= 1
        /\ result.calls[1].pos = close + 1
        /\ result.end_offset = close

---------------------------------------------------------------------------
(* The message variables of an ereport record                              *)

\* the sub-calls of an ereport statement text, as find_function_calls
\* reports them in the arguments after the severity
SubCalls(log) ==
  find_function_calls(join(<<",">>, Tail(split_arguments(CallContent(strip(log))))),
                      all_functions)

\* the positions of the message-producing sub-calls that have an argument
MessageCalls(functions) ==
  {k \in DOMAIN functions :
     /\ functions[k].func_name \in Range(errmsg_functions)
     /\ split_arguments(functions[k].args_str) # <<>>}

\* C12: in every record extract_ereport returns, errmsg_variables is the
\* list of the sub-arguments after the first of the same message-producing
\* sub-call that supplied errmsg_template, in source order; it is empty
\* when that sub-call has only a template argument, and when there is no
\* message-producing sub-call.
C12_VariablesOfTheTemplateCall ==
  (EreportDone /\ result # None) =>
    LET functions == SubCalls(input)
        messages == MessageCalls(functions)
        supplier == GreatestOr(messages, 0)
    IN  IF messages = {}
          THEN result[1].errmsg_template = None /\ result[1].errmsg_variables = <<>>
          ELSE LET sub_args == split_arguments(functions[supplier].args_str)
               IN  /\ result[1].errmsg_template = Some(template_of(strip(sub_args[1])))
                   /\ result[1].errmsg_variables = Tail(sub_args)

===========================================================================
